---- MODULE Spec2Model ----
(***************************************************************************)
(* pay.py: the Streamlit bill splitter.  Every user interaction reruns     *)
(* main() from top to bottom against st.session_state; one action of this  *)
(* module is one interaction followed by that whole rerun.                 *)
(*                                                                         *)
(* Amounts are Python floats (IEEE-754 binary64).  A non-negative float x  *)
(* is held as the natural number x * 2^FracBits, written as little-endian  *)
(* limbs in base 2^15 (TLC's integers are 32 bits wide).  Every float the  *)
(* bounded inputs produce lies in [2^-22, 2^15) or is 0, where all floats  *)
(* are whole multiples of 2^-FracBits.                                     *)
(***************************************************************************)
EXTENDS Integers, Sequences, FiniteSets, TLC

VARIABLES names_input, uploaded_file, session_state, heap, checkbox_state,
          widgets, exception, page, results, edits

vars == <<names_input, uploaded_file, session_state, heap, checkbox_state,
          widgets, exception, page, results, edits>>

(***************************************************************************)
(* Bounds of the model.                                                    *)
(***************************************************************************)
MaxNames == 2
MaxItems == 2
\* Step 3 edits made in one session
MaxEdits == 1

(***************************************************************************)
(* Natural numbers as limb sequences.                                      *)
(***************************************************************************)
Base == 2^15
Mantissa == 53

RECURSIVE Norm(_)
Norm(a) == IF a = <<>> THEN a
           ELSE IF a[Len(a)] = 0 THEN Norm(SubSeq(a, 1, Len(a) - 1)) ELSE a

Limb(a, i) == IF i >= 1 /\ i <= Len(a) THEN a[i] ELSE 0

RECURSIVE AddFrom(_, _, _, _)
AddFrom(a, b, i, carry) ==
    IF i > Len(a) /\ i > Len(b)
    THEN IF carry = 0 THEN <<>> ELSE <<carry>>
    ELSE LET s == Limb(a, i) + Limb(b, i) + carry
         IN <<s % Base>> \o AddFrom(a, b, i + 1, s \div Base)

AddN(a, b) == AddFrom(a, b, 1, 0)

RECURSIVE SubFrom(_, _, _, _)
SubFrom(a, b, i, borrow) ==
    IF i > Len(a) THEN <<>>
    ELSE LET s == Limb(a, i) - Limb(b, i) - borrow
         IN <<s % Base>> \o SubFrom(a, b, i + 1, IF s < 0 THEN 1 ELSE 0)

SubN(a, b) == Norm(SubFrom(a, b, 1, 0))

RECURSIVE MulFrom(_, _, _, _)
MulFrom(a, k, i, carry) ==
    IF i > Len(a)
    THEN IF carry = 0 THEN <<>> ELSE <<carry>>
    ELSE LET s == a[i] * k + carry
         IN <<s % Base>> \o MulFrom(a, k, i + 1, s \div Base)

MulSmall(a, k) == Norm(MulFrom(a, k, 1, 0))

\* long division by a small divisor, from the top limb down
RECURSIVE DivFrom(_, _, _, _, _)
DivFrom(a, d, i, rem, q) ==
    IF i = 0 THEN [q |-> Norm(q), r |-> rem]
    ELSE DivFrom(a, d, i - 1, (rem * Base + a[i]) % d,
                 <<(rem * Base + a[i]) \div d>> \o q)

DivSmall(a, d) == DivFrom(a, d, Len(a), 0, <<>>)

RECURSIVE CmpFrom(_, _, _)
CmpFrom(a, b, i) ==
    IF i = 0 THEN 0
    ELSE IF Limb(a, i) > Limb(b, i) THEN 1
    ELSE IF Limb(a, i) < Limb(b, i) THEN -1
    ELSE CmpFrom(a, b, i - 1)

CmpN(a, b) == CmpFrom(a, b, IF Len(a) > Len(b) THEN Len(a) ELSE Len(b))

RECURSIVE Bits(_)
Bits(k) == IF k = 0 THEN 0 ELSE 1 + Bits(k \div 2)

LimbBits == Bits(Base - 1)

BitLen(a) == IF a = <<>> THEN 0 ELSE LimbBits * (Len(a) - 1) + Bits(a[Len(a)])

NatOf(k) == Norm(<<k % Base, k \div Base>>)

ShiftLimbs(a, n) == IF a = <<>> THEN a ELSE [i \in 1..n |-> 0] \o a

AllZero(a) == \A i \in 1..Len(a) : a[i] = 0

Prefix(a, k) == SubSeq(a, 1, IF k < Len(a) THEN k ELSE Len(a))

Suffix(a, k) == IF k < Len(a) THEN SubSeq(a, k + 1, Len(a)) ELSE <<>>

(***************************************************************************)
(* Float arithmetic: the exact result rounded to Mantissa significant      *)
(* bits, ties to even.  RoundAt(n, d, s) is the multiple of 2^s nearest to *)
(* n / d, a tie going to the even multiple.                                *)
(***************************************************************************)
\* q = hi * 2^s + lo, and frac is whether the division that gave q left a
\* remainder: round hi up when lo (with the remainder) is above half of 2^s, or is
\* the half and hi is odd
RoundUp(hi, guard, sticky) ==
    IF guard /\ (sticky \/ Limb(hi, 1) % 2 = 1) THEN AddN(hi, <<1>>) ELSE hi

RoundSplit(low, sh, a, b, frac) ==
    ShiftLimbs(
        MulSmall(
            RoundUp(sh.q,
                    IF b > 0 THEN sh.r >= 2^(b - 1) ELSE Limb(low, a) >= Base \div 2,
                    IF b > 0
                    THEN (sh.r % 2^(b - 1) # 0) \/ ~AllZero(low) \/ frac
                    ELSE \/ Limb(low, a) % (Base \div 2) # 0
                         \/ ~AllZero(Prefix(low, a - 1))
                         \/ frac),
            2^b),
        a)

RoundQuot(dv, d, s) ==
    IF s = 0
    THEN RoundUp(dv.q, 2 * dv.r >= d, 2 * dv.r # d)
    ELSE RoundSplit(Prefix(dv.q, s \div LimbBits),
                    DivSmall(Suffix(dv.q, s \div LimbBits), 2^(s % LimbBits)),
                    s \div LimbBits, s % LimbBits, dv.r # 0)

RoundAt(n, d, s) == RoundQuot(DivSmall(n, d), d, s)

Excess(L) == IF L > Mantissa THEN L - Mantissa ELSE 0

Round53Quot(dv, d) == RoundQuot(dv, d, Excess(BitLen(dv.q)))

Round53(n, d) == Round53Quot(DivSmall(n, d), d)

Zero == <<>>
One == <<0, 0, 0, 0, 0, 1>>
FracLimbs == Len(One) - 1
FracBits == LimbBits * FracLimbs

\* a decimal amount of c cents read as a float (json.loads, st.number_input)
FromCents(c) == Round53(ShiftLimbs(NatOf(c), FracLimbs), 100)

fadd(x, y) == Round53(AddN(x, y), 1)
fdiv(x, n) == Round53(x, n)
fmul(x, k) == Round53(MulSmall(x, k), 1)
rint(x) == RoundAt(x, 1, FracBits)

\* Series.round(2): numpy scales by 10^2, rounds to the nearest integer, scales back
Round2(x) == fdiv(rint(fmul(x, 100)), 100)


(***************************************************************************)
(* Inputs.  The text of the names box is its comma-separated tokens, a     *)
(* token being its leading blanks and its word; the empty text is the one  *)
(* empty token, as "".split(",") is [""].                                  *)
(***************************************************************************)
Roster == <<"Alice", "Bob", "Carol", "Dave">>

Token(k) == [pad |-> IF k = 1 THEN 0 ELSE 1, word |-> Roster[k]]

EmptyText == <<[pad |-> 0, word |-> ""]>>

NameTexts == {EmptyText} \cup {[k \in 1..n |-> Token(k)] : n \in 1..MaxNames}

ItemNames == {"Pizza", "Salad"}

\* two receipts, as lines of item name and price in cents
Receipt1 == << <<"Pizza", 2000>>, <<"Soda", 400>>, <<"Salad", 750>> >>
Receipt2 == << <<"Salad", 21>>, <<"Soda", 400>>, <<"Pizza", 2000>> >>

\* the bill a reply describes: the first n lines of a receipt and its summary
BillOf(receipt, n, total) ==
    [items    |-> [i \in 1..n |-> [name  |-> receipt[i][1],
                                   price |-> FromCents(receipt[i][2])]],
     subtotal |-> FromCents(2400),
     tax      |-> FromCents(200),
     tip      |-> FromCents(300),
     total    |-> FromCents(total)]

ExtractedBills == {BillOf(Receipt1, MaxItems, 2900), BillOf(Receipt2, MaxItems - 1, 2400)}

AnyBill == CHOOSE b \in ExtractedBills : TRUE

\* a reply of the model: whether the call returned at all, whether prose surrounds
\* the JSON, and whether the {...} block is valid JSON, invalid, or absent
Replies ==
    [call_ok : {TRUE}, prose : BOOLEAN, body : {"valid"}, bill : ExtractedBills]
    \cup [call_ok : {TRUE}, prose : BOOLEAN, body : {"invalid", "absent"}, bill : {AnyBill}]
    \cup [call_ok : {FALSE}, prose : {FALSE}, body : {"absent"}, bill : {AnyBill}]

AnyReply == CHOOSE r \in Replies : TRUE

PriceInputs == {FromCents(21)}

AmountInputs ==
    [subtotal |-> {FromCents(1000)}, tax |-> {FromCents(100)}, tip |-> {FromCents(200)}]

NoEdit == [widget |-> "none", i |-> 0, name |-> "", amount |-> Zero]

(***************************************************************************)
(* st.session_state, the objects it refers to, and one run of the script.  *)
(***************************************************************************)
None == [tag |-> "None"]

NoException == [type |-> "none", line |-> 0]

NoResults == [tag |-> "none"]

Has(d, k) == k \in DOMAIN d

Put(d, k, v) == [x \in DOMAIN d \cup {k} |-> IF x = k THEN v ELSE d[x]]

Raise(m, t, l) == [m EXCEPT !.exc = [type |-> t, line |-> l]]

Ok(m) == m.exc.type = "none"

\* the state a run starts from: session state and heap as left by the last run,
\* nothing rendered yet
Start(ss, h) ==
    [ss |-> ss, heap |-> h, cb |-> <<>>, widgets |-> {}, exc |-> NoException,
     page |-> {}, results |-> NoResults]

\* bool(names_input)
TextTruthy(text) == text # EmptyText

\* name.strip()
strip(tok) == tok.word

Step1(m, text) ==
    IF TextTruthy(text)
    THEN [m EXCEPT !.ss = Put(@, "names", [i \in 1..Len(text) |-> strip(text[i])]),
                   !.page = @ \cup {"Names added"}]
    ELSE m

\* json.loads(response.text)
StrictParse(reply) == ~reply.prose /\ reply.body = "valid"

\* re.search(r'\{.*\}', response.text, re.DOTALL)
RegexMatch(reply) == reply.body # "absent"

get_gemini_response(reply) ==
    IF ~reply.call_ok
    THEN \* generate_content raised: the handler reads response, never bound
         [raised |-> [type |-> "UnboundLocalError", line |-> 57], value |-> None]
    ELSE IF StrictParse(reply) \/ (RegexMatch(reply) /\ reply.body = "valid")
    THEN [raised |-> NoException, value |-> [tag |-> "dict"] @@ reply.bill]
    ELSE \* the handler shows the error and returns None
         [raised |-> NoException, value |-> None]

\* dict.copy(): a new dict holding the same values, the items list by reference
DictCopy(d) == d

\* the list a parsed reply holds becomes a heap object; the list of the previous
\* bill is referenced by nothing once both records are replaced, and is dropped
NewList(h, v) == [ref |-> 1, heap |-> (1 :> v)]

\* lines 86-88, bill_data being the dict whose items list is o.ref
StoreBill(m, value, o) ==
    [m EXCEPT !.heap = o.heap,
              !.ss = Put(Put(@, "original_bill_data", [value EXCEPT !.items = o.ref]),
                         "edited_bill_data", DictCopy([value EXCEPT !.items = o.ref])),
              !.page = @ \cup {"Bill processed successfully!"}]

Analyze(m, r) ==
    IF r.raised.type # "none"
    THEN [m EXCEPT !.exc = r.raised, !.page = @ \cup {"Error processing the image"}]
    ELSE IF r.value.tag = "None"
    THEN [m EXCEPT !.ss = Put(@, "original_bill_data", None),
                   !.exc = [type |-> "AttributeError", line |-> 87],
                   !.page = @ \cup {"Error processing the image"}]
    ELSE StoreBill(m, r.value, NewList(m.heap, r.value.items))

Step2(m, uploaded, clicked, reply) ==
    IF ~uploaded THEN m
    ELSE IF ~clicked THEN [m EXCEPT !.widgets = @ \cup {"Analyze Bill"}]
    ELSE Analyze([m EXCEPT !.widgets = @ \cup {"Analyze Bill"}],
                 get_gemini_response(reply))

\* st.text_input / st.number_input: the value the user gave this widget in this
\* run, else its default
WidgetValue(edit, widget, i, default, given) ==
    IF edit.widget = widget /\ edit.i = i THEN given ELSE default

\* faulty variant: the stored total is kept as it is
RecalculateKept(d) == d

\* total = subtotal + tax + tip
Recalculate(d) == [d EXCEPT !.total = fadd(fadd(d.subtotal, d.tax), d.tip)]

EditItems(items, edit) ==
    [i \in 1..Len(items) |->
        [name  |-> WidgetValue(edit, "name", i, items[i].name, edit.name),
         price |-> WidgetValue(edit, "price", i, items[i].price, edit.amount)]]

EditSummary(d, edit) ==
    [d EXCEPT !.subtotal = WidgetValue(edit, "subtotal", 0, @, edit.amount),
              !.tax      = WidgetValue(edit, "tax", 0, @, edit.amount),
              !.tip      = WidgetValue(edit, "tip", 0, @, edit.amount)]

Step3(m, edit) ==
    IF ~Ok(m) \/ ~Has(m.ss, "edited_bill_data") THEN m
    ELSE [m EXCEPT
             !.heap = [@ EXCEPT ![m.ss["edited_bill_data"].items] = EditItems(@, edit)],
             !.ss = Put(@, "edited_bill_data",
                        Recalculate(EditSummary(m.ss["edited_bill_data"], edit))),
             !.widgets = @ \cup {"Step 3"}]

\* {item['name']: [] for item in items}
NewAllocations(items) == [n \in {items[i].name : i \in 1..Len(items)} |-> <<>>]

Contains(l, name) == \E k \in 1..Len(l) : l[k] = name

FirstIndex(l, name) ==
    CHOOSE k \in 1..Len(l) : l[k] = name /\ \A h \in 1..(k - 1) : l[h] # name

DropAt(l, k) == SubSeq(l, 1, k - 1) \o SubSeq(l, k + 1, Len(l))

\* list.remove(name): drops the first occurrence
Remove(l, name) == DropAt(l, FirstIndex(l, name))

\* faulty variant: appends without looking for the name
AssignAlways(l, name) == Append(l, name)

\* the checked branch of a checkbox
Assign(l, name) == IF ~Contains(l, name) THEN Append(l, name) ELSE l

\* faulty variant: the unchecked branch removes nothing
UnassignKeeps(l, name) == l

\* the unchecked branch of a checkbox
Unassign(l, name) == IF Contains(l, name) THEN Remove(l, name) ELSE l

\* one checkbox and the branch it selects; a key is the pair (item name,
\* participant name), and a key rendered twice in one run is refused by Streamlit
Checkbox(m, item, name, checked) ==
    IF Has(m.cb, <<item, name>>)
    THEN Raise(m, "DuplicateWidgetID", 129)
    ELSE IF ~Has(m.ss["allocations"], item)
    THEN [m EXCEPT !.cb = Put(@, <<item, name>>, checked),
                   !.exc = [type |-> "KeyError", line |-> IF checked THEN 130 ELSE 133]]
    ELSE [m EXCEPT !.cb = Put(@, <<item, name>>, checked),
                   !.ss = Put(@, "allocations",
                              [@["allocations"] EXCEPT
                                  ![item] = IF checked THEN Assign(@, name)
                                                       ELSE Unassign(@, name)])]

\* st.checkbox(name, key=...): the state kept under the key, unchecked when new
Checked(boxes, key) == IF Has(boxes, key) THEN boxes[key] ELSE FALSE

\* the checkboxes of item i from participant j on, then those of the later items
RECURSIVE ToggleLoop(_, _, _, _, _, _)
ToggleLoop(m, boxes, items, names, i, j) ==
    IF ~Ok(m) \/ i > Len(items) THEN m
    ELSE IF j > Len(names) THEN ToggleLoop(m, boxes, items, names, i + 1, 1)
    ELSE ToggleLoop(Checkbox(m, items[i].name, names[j],
                             Checked(boxes, <<items[i].name, names[j]>>)),
                    boxes, items, names, i, j + 1)

EnsureAllocations(m, items) ==
    IF ~Has(m.ss, "allocations")
    THEN [m EXCEPT !.ss = Put(@, "allocations", NewAllocations(items))]
    ELSE m

ItemsOf(m) == m.heap[m.ss["edited_bill_data"].items]

Step4(m, boxes) ==
    IF ~Ok(m) \/ ~(Has(m.ss, "edited_bill_data") /\ Has(m.ss, "names")) THEN m
    ELSE ToggleLoop(EnsureAllocations(m, ItemsOf(m)), boxes, ItemsOf(m),
                    m.ss["names"], 1, 1)

\* faulty variant: the empty list is not skipped
ListTruthyAlways(l) == TRUE

\* if allocated_to:
ListTruthy(l) == Len(l) > 0

\* faulty variant: every sharer is charged the whole price
CostPerPersonWhole(price, n) == price

\* item['price'] / len(allocated_to)
CostPerPerson(price, n) == fdiv(price, n)

\* faulty variant: tax and tip are charged only to those who share an item
FinalCostSharersOnly(cost, share) == IF cost = Zero THEN cost ELSE fadd(cost, share)

\* cost + tax_and_tip_per_person
FinalCost(cost, share) == fadd(cost, share)

\* for name in allocated_to: individual_costs[name] += cost_per_person
\* (c holds the costs so far and the exception the loops ended with)
RECURSIVE SharerLoop(_, _, _, _)
SharerLoop(c, allocated_to, k, cost_per_person) ==
    IF k > Len(allocated_to) \/ c.error.type # "none" THEN c
    ELSE IF ~Has(c.costs, allocated_to[k])
    THEN [c EXCEPT !.error = [type |-> "KeyError", line |-> 148]]
    ELSE SharerLoop([c EXCEPT !.costs[allocated_to[k]] = fadd(@, cost_per_person)],
                    allocated_to, k + 1, cost_per_person)

\* for item in items: ...
RECURSIVE ItemLoop(_, _, _, _)
ItemLoop(c, items, alloc, i) ==
    IF i > Len(items) \/ c.error.type # "none" THEN c
    ELSE IF ~Has(alloc, items[i].name)
    THEN [c EXCEPT !.error = [type |-> "KeyError", line |-> 144]]
    ELSE IF ~ListTruthy(alloc[items[i].name])
    THEN ItemLoop(c, items, alloc, i + 1)
    ELSE IF Len(alloc[items[i].name]) = 0
    THEN [c EXCEPT !.error = [type |-> "ZeroDivisionError", line |-> 146]]
    ELSE ItemLoop(SharerLoop(c, alloc[items[i].name], 1,
                             CostPerPerson(items[i].price,
                                           Len(alloc[items[i].name]))),
                  items, alloc, i + 1)

FinalCosts(individual_costs, tax_and_tip_per_person) ==
    [n \in DOMAIN individual_costs |->
        FinalCost(individual_costs[n], tax_and_tip_per_person)]

\* DataFrame column .round(2)
RoundColumn(costs) == [n \in DOMAIN costs |-> Round2(costs[n])]

Tables(individual_costs, final_costs) ==
    [tag |-> "tables",
     individual_costs |-> individual_costs,
     results_df |-> RoundColumn(individual_costs),
     final_costs |-> final_costs,
     final_df |-> RoundColumn(final_costs)]

\* lines 151-171, the item loop having ended in c
Display(m, c, d, n) ==
    IF c.error.type # "none" THEN [m EXCEPT !.exc = c.error]
    ELSE IF n = 0 THEN Raise(m, "ZeroDivisionError", 164)
    ELSE [m EXCEPT !.results =
             Tables(c.costs, FinalCosts(c.costs, fdiv(fadd(d.tax, d.tip), n)))]

NameKeys(names) == {names[j] : j \in 1..Len(names)}

Step5(m, clicked) ==
    IF ~Ok(m) THEN m
    ELSE IF ~(clicked /\ Has(m.ss, "allocations") /\ Has(m.ss, "edited_bill_data"))
    THEN [m EXCEPT !.widgets = @ \cup {"Calculate Split"}]
    ELSE Display([m EXCEPT !.widgets = @ \cup {"Calculate Split"}],
                 ItemLoop([costs |-> [n \in NameKeys(m.ss["names"]) |-> Zero],
                           error |-> NoException],
                          ItemsOf(m), m.ss["allocations"], 1),
                 m.ss["edited_bill_data"], Len(m.ss["names"]))

\* main(): the steps in order; an exception ends the run where it is raised
Script(ss, h, text, uploaded, analyze, reply, edit, boxes, calc) ==
    Step5(Step4(Step3(Step2(Step1(Start(ss, h), text), uploaded, analyze, reply),
                      edit),
                boxes),
          calc)

Commit(text, uploaded, m) ==
    /\ names_input' = text
    /\ uploaded_file' = uploaded
    /\ session_state' = m.ss
    /\ heap' = m.heap
    /\ checkbox_state' = m.cb
    /\ widgets' = m.widgets
    /\ exception' = m.exc
    /\ page' = m.page
    /\ results' = m.results

\* the widgets and the session after a rerun with these inputs; edits counts the
\* Step 3 edits of the session
Rerun(text, uploaded, analyze, reply, edit, boxes, calc) ==
    /\ edits' = IF edit.widget = "none" THEN edits ELSE edits + 1
    /\ Commit(text, uploaded,
              Script(session_state, heap, text, uploaded, analyze, reply, edit, boxes,
                     calc))

FirstRun == Script(<<>>, <<>>, EmptyText, FALSE, FALSE, AnyReply, NoEdit, <<>>, FALSE)

\* the first run of a session: nothing entered, nothing stored
Init ==
    /\ names_input = EmptyText
    /\ uploaded_file = FALSE
    /\ session_state = FirstRun.ss
    /\ heap = FirstRun.heap
    /\ checkbox_state = FirstRun.cb
    /\ widgets = FirstRun.widgets
    /\ exception = FirstRun.exc
    /\ page = FirstRun.page
    /\ results = FirstRun.results
    /\ edits = 0

EnterNames ==
    \E text \in NameTexts :
        /\ text # names_input
        /\ Rerun(text, uploaded_file, FALSE, AnyReply, NoEdit, checkbox_state, FALSE)

UploadFile ==
    /\ ~uploaded_file
    /\ Rerun(names_input, TRUE, FALSE, AnyReply, NoEdit, checkbox_state, FALSE)

AnalyzeBill ==
    \E reply \in Replies :
        /\ "Analyze Bill" \in widgets
        /\ Rerun(names_input, uploaded_file, TRUE, reply, NoEdit, checkbox_state, FALSE)

EditedItems == heap[session_state["edited_bill_data"].items]

EditItemName ==
    \E i \in 1..MaxItems, v \in ItemNames :
        /\ "Step 3" \in widgets
        /\ edits < MaxEdits
        /\ i <= Len(EditedItems)
        /\ v # EditedItems[i].name
        /\ Rerun(names_input, uploaded_file, FALSE, AnyReply,
                 [widget |-> "name", i |-> i, name |-> v, amount |-> Zero],
                 checkbox_state, FALSE)

EditItemPrice ==
    \E i \in 1..MaxItems, v \in PriceInputs :
        /\ "Step 3" \in widgets
        /\ edits < MaxEdits
        /\ i <= Len(EditedItems)
        /\ v # EditedItems[i].price
        /\ Rerun(names_input, uploaded_file, FALSE, AnyReply,
                 [widget |-> "price", i |-> i, name |-> "", amount |-> v],
                 checkbox_state, FALSE)

EditField(field) ==
    \E v \in AmountInputs[field] :
        /\ "Step 3" \in widgets
        /\ edits < MaxEdits
        /\ v # session_state["edited_bill_data"][field]
        /\ Rerun(names_input, uploaded_file, FALSE, AnyReply,
                 [widget |-> field, i |-> 0, name |-> "", amount |-> v],
                 checkbox_state, FALSE)

EditSubtotal == EditField("subtotal")

EditTax == EditField("tax")

EditTip == EditField("tip")

ToggleCheckbox ==
    \E key \in DOMAIN checkbox_state :
        Rerun(names_input, uploaded_file, FALSE, AnyReply, NoEdit,
              [checkbox_state EXCEPT ![key] = ~@], FALSE)

CalculateSplit ==
    /\ "Calculate Split" \in widgets
    /\ Rerun(names_input, uploaded_file, FALSE, AnyReply, NoEdit, checkbox_state, TRUE)

Next ==
    \/ EnterNames
    \/ UploadFile
    \/ AnalyzeBill
    \/ EditItemName
    \/ EditItemPrice
    \/ EditSubtotal
    \/ EditTax
    \/ EditTip
    \/ ToggleCheckbox
    \/ CalculateSplit

Spec == Init /\ [][Next]_vars

(***************************************************************************)
(* Views of the state the properties are stated over.                      *)
(***************************************************************************)
HasBill == Has(session_state, "edited_bill_data")

Edited == session_state["edited_bill_data"]

Original == session_state["original_bill_data"]

HasOriginal == Has(session_state, "original_bill_data") /\ Original.tag = "dict"

Names == session_state["names"]

Allocations == session_state["allocations"]

HasAllocations == Has(session_state, "allocations")

Split == results.tag = "tables"

\* the Calculate Split block was entered in the last run
SplitRan == Split \/ exception.line \in 142..171

Sharers(i) == Allocations[EditedItems[i].name]

AllAllocated ==
    \A i \in 1..Len(EditedItems) :
        Has(Allocations, EditedItems[i].name) /\ Len(Sharers(i)) > 0

NoDuplicates(l) == \A h, k \in 1..Len(l) : l[h] = l[k] => h = k

(***************************************************************************)
(* C1: after every run in which an edited bill record exists, the stored   *)
(* total is subtotal + tax + tip of that record (the float sum, taken left *)
(* to right), whatever total the extraction returned.                      *)
(***************************************************************************)
C1_TotalRecomputed ==
    HasBill => Edited.total = fadd(fadd(Edited.subtotal, Edited.tax), Edited.tip)

\* an extraction whose total was not the sum, and an edit of the tax after it
C1_Witness ==
    /\ HasBill
    /\ HasOriginal
    /\ Original.total # fadd(fadd(Original.subtotal, Original.tax), Original.tip)
    /\ Edited.tax # Original.tax
    /\ Edited.total # Original.total

(***************************************************************************)
(* Sums of amounts: the exact ones, and the ones Python's sum() gives by   *)
(* adding floats in order.                                                 *)
(***************************************************************************)
RECURSIVE ExactTotal(_, _)
ExactTotal(costs, keys) ==
    IF keys = {} THEN Zero
    ELSE LET k == CHOOSE k \in keys : TRUE
         IN AddN(costs[k], ExactTotal(costs, keys \ {k}))

RECURSIVE ExactPrices(_, _)
ExactPrices(items, i) ==
    IF i = 0 THEN Zero ELSE AddN(ExactPrices(items, i - 1), items[i].price)

RECURSIVE FloatTotal(_, _, _)
FloatTotal(costs, names, j) ==
    IF j = 0 THEN Zero ELSE fadd(FloatTotal(costs, names, j - 1), costs[names[j]])

RECURSIVE FloatPrices(_, _)
FloatPrices(items, i) ==
    IF i = 0 THEN Zero ELSE fadd(FloatPrices(items, i - 1), items[i].price)

AbsDiff(a, b) == IF CmpN(a, b) >= 0 THEN SubN(a, b) ELSE SubN(b, a)

SumOfCosts == ExactTotal(results.individual_costs, DOMAIN results.individual_costs)

SumOfPrices == ExactPrices(EditedItems, Len(EditedItems))

(***************************************************************************)
(* C2 as stated: when every item has a sharer, the individual costs of a   *)
(* completed split sum to the sum of the item prices.  Read in the weakest *)
(* way: the two sums agree exactly or as Python adds them up.              *)
(***************************************************************************)
C2_SumEqualsPrices ==
    (Split /\ AllAllocated) =>
        \/ SumOfCosts = SumOfPrices
        \/ FloatTotal(results.individual_costs, Names, Len(Names))
               = FloatPrices(EditedItems, Len(EditedItems))

(***************************************************************************)
(* C2 amended: when every item has a sharer, the individual costs of a     *)
(* completed split sum to the sum of the item prices within 0.01 times the *)
(* number of items.                                                        *)
(***************************************************************************)
C2_SumWithinTolerance ==
    (Split /\ AllAllocated) =>
        CmpN(MulSmall(AbsDiff(SumOfCosts, SumOfPrices), 100),
             MulSmall(One, Len(EditedItems))) <= 0

\* a completed split of a fully allocated bill with a shared item, the sums differing
C2_Witness ==
    /\ Split
    /\ AllAllocated
    /\ \E i \in 1..Len(EditedItems) : Len(Sharers(i)) >= 2
    /\ SumOfCosts # SumOfPrices

(***************************************************************************)
(* C3: in a completed split every participant's final cost is the          *)
(* unrounded individual cost plus (tax + tip) / number of participants,    *)
(* whether or not the participant shares an item; only the two displayed   *)
(* columns are rounded to 2 decimals; and Pizza 20.00 -> {Alice, Bob},     *)
(* Soda 4.00 -> {Alice}, tax 2.00, tip 3.00 gives individual costs         *)
(* 14.00 and 10.00 and final costs 16.50 and 12.50.                        *)
(***************************************************************************)
\* the sum, in item order, of the shares of the items p is a sharer of
RECURSIVE ItemShares(_, _)
ItemShares(p, i) ==
    IF i = 0 THEN Zero
    ELSE IF Contains(Sharers(i), p)
    THEN fadd(ItemShares(p, i - 1), fdiv(EditedItems[i].price, Len(Sharers(i))))
    ELSE ItemShares(p, i - 1)

SharerSet(i) == {Sharers(i)[k] : k \in 1..Len(Sharers(i))}

Scenario ==
    /\ Names = <<"Alice", "Bob">>
    /\ Len(EditedItems) = 2
    /\ EditedItems[1] = [name |-> "Pizza", price |-> FromCents(2000)]
    /\ EditedItems[2] = [name |-> "Soda", price |-> FromCents(400)]
    /\ SharerSet(1) = {"Alice", "Bob"}
    /\ SharerSet(2) = {"Alice"}
    /\ Edited.tax = FromCents(200)
    /\ Edited.tip = FromCents(300)

C3_FinalCost ==
    Split =>
        /\ DOMAIN results.individual_costs = NameKeys(Names)
        /\ DOMAIN results.final_costs = NameKeys(Names)
        /\ \A p \in NameKeys(Names) :
              /\ results.individual_costs[p] = ItemShares(p, Len(EditedItems))
              /\ results.final_costs[p] =
                     fadd(ItemShares(p, Len(EditedItems)),
                          fdiv(fadd(Edited.tax, Edited.tip), Len(Names)))
              /\ results.results_df[p] = Round2(results.individual_costs[p])
              /\ results.final_df[p] = Round2(results.final_costs[p])
        /\ Scenario =>
              /\ results.individual_costs =
                     ("Alice" :> FromCents(1400) @@ "Bob" :> FromCents(1000))
              /\ results.final_costs =
                     ("Alice" :> FromCents(1650) @@ "Bob" :> FromCents(1250))

\* the completed split of the scenario
C3_Witness == Split /\ Scenario

(***************************************************************************)
(* C4 as stated: for every item and participant p, unassigning p right     *)
(* after assigning p gives back the sharer list the item had before the    *)
(* assign, whatever that list was.                                         *)
(***************************************************************************)
C4_UnassignUndoesAssign ==
    (HasAllocations /\ Has(session_state, "names")) =>
        \A item \in DOMAIN Allocations : \A p \in NameKeys(Names) :
            Unassign(Assign(Allocations[item], p), p) = Allocations[item]

(***************************************************************************)
(* C4 amended: for every item and every participant p who is not already a *)
(* sharer of it, unassigning p right after assigning p gives back the      *)
(* sharer list the item had before the assign.                             *)
(***************************************************************************)
C4_UnassignUndoesFreshAssign ==
    (HasAllocations /\ Has(session_state, "names")) =>
        \A item \in DOMAIN Allocations : \A p \in NameKeys(Names) :
            ~Contains(Allocations[item], p) =>
                Unassign(Assign(Allocations[item], p), p) = Allocations[item]

\* an item someone already shares, and a participant who does not share it
C4_Witness ==
    /\ HasAllocations
    /\ \E item \in DOMAIN Allocations : \E p \in NameKeys(Names) :
          /\ Len(Allocations[item]) > 0
          /\ ~Contains(Allocations[item], p)
          /\ Has(checkbox_state, <<item, p>>)

(***************************************************************************)
(* C5: assigning p to an item twice leaves the sharer list that assigning  *)
(* once leaves, likewise for unassigning, and no sharer list ever holds    *)
(* the same name twice.                                                    *)
(***************************************************************************)
C5_TogglesIdempotent ==
    HasAllocations =>
        \A item \in DOMAIN Allocations :
            /\ NoDuplicates(Allocations[item])
            /\ \A k \in 1..Len(Roster) :
                  /\ Assign(Assign(Allocations[item], Roster[k]), Roster[k])
                        = Assign(Allocations[item], Roster[k])
                  /\ Unassign(Unassign(Allocations[item], Roster[k]), Roster[k])
                        = Unassign(Allocations[item], Roster[k])

\* a rerun with two boxes of one item still checked: both assigns ran again
C5_Witness ==
    /\ HasAllocations
    /\ Split
    /\ \E item \in DOMAIN Allocations :
          /\ Len(Allocations[item]) >= 2
          /\ \A k \in 1..Len(Allocations[item]) :
                /\ Has(checkbox_state, <<item, Allocations[item][k]>>)
                /\ checkbox_state[<<item, Allocations[item][k]>>]

(***************************************************************************)
(* C6 as stated: an extraction failure is shown as an error and the run    *)
(* ends without an unhandled exception and without the success message.    *)
(***************************************************************************)
C6_ExtractionFailureNotFatal ==
    "Error processing the image" \in page =>
        /\ exception = NoException
        /\ "Bill processed successfully!" \notin page

(***************************************************************************)
(* C7 as stated: whenever the allocation map exists it has an entry for    *)
(* the name of every item of the edited bill record, and no run looks up   *)
(* an item name the map lacks.                                             *)
(***************************************************************************)
C7_AllocationsCoverItems ==
    /\ (HasAllocations /\ HasBill) =>
          \A i \in 1..Len(EditedItems) : Has(Allocations, EditedItems[i].name)
    /\ ~(exception.type = "KeyError" /\ exception.line \in {130, 133, 144})

(***************************************************************************)
(* C8 as stated: a Calculate Split run completes and gives individual and  *)
(* final costs for exactly the current participants, also when a sharer    *)
(* left in an allocation is no longer a participant.                       *)
(***************************************************************************)
C8_SplitCompletes ==
    SplitRan =>
        /\ Split
        /\ DOMAIN results.individual_costs = NameKeys(Names)
        /\ DOMAIN results.final_costs = NameKeys(Names)

(***************************************************************************)
(* C9: no run divides by zero: an item nobody shares is skipped, the       *)
(* allocation map exists only once names are stored, and a stored name     *)
(* list is never empty.                                                    *)
(***************************************************************************)
C9_NoDivisionByZero ==
    /\ exception.type # "ZeroDivisionError"
    /\ HasAllocations => Has(session_state, "names")
    /\ Has(session_state, "names") => Len(Names) >= 1

\* a completed split of a bill with an item nobody shares and one somebody does
C9_Witness ==
    /\ Split
    /\ \E i \in 1..Len(EditedItems) : Len(Sharers(i)) = 0
    /\ \E i \in 1..Len(EditedItems) : Len(Sharers(i)) > 0

(***************************************************************************)
(* C10 as stated: a Step 3 edit leaves the original bill record, with its  *)
(* items, as it was.                                                       *)
(***************************************************************************)
OriginalItems == heap[Original.items]

C10_OriginalUnchanged ==
    [][(edits' # edits /\ HasOriginal) =>
          /\ Original' = Original
          /\ OriginalItems' = OriginalItems]_vars

====
